---------------------------- MODULE Spec2Model ----------------------------
(***************************************************************************)
(* A model of src/src/worker.ts: the Stdio file descriptors of the         *)
(* sandboxed engine (stdout frame decoder, stdin channel reader) and the   *)
(* LspClient / LspPlugin pair of the editor side.                          *)
(*                                                                         *)
(* The specifications share the module; each one moves the variables of    *)
(* one part of the program and leaves the others at their constructed      *)
(* value:                                                                  *)
(*   SpecStdout   Stdio.fd_write of the stdout descriptor                  *)
(*   SpecStderr   Stdio.fd_write of the stderr descriptor                  *)
(*   SpecStdin    Stdio.fd_read against the shared stdin channel           *)
(*   SpecClient   LspClient and its LspPlugin subscribers                  *)
(***************************************************************************)
EXTENDS Integers, Sequences, FiniteSets, TLC

VARIABLES
    \* ---- Stdio(stdout) and the engine writing to it
    outFrames,      \* bodies of the frames the engine writes (history)
    outStream,      \* the bytes the engine writes, in order
    outPos,         \* how many of them it has written so far
    stdoutBuffer,   \* Stdio.buffer of the stdout descriptor (bytes)
    posted,         \* arguments of postMessage, in call order
    stdoutThrew     \* an exception left fd_write (the engine's run is over)

VARIABLES
    \* ---- the shared stdin channel (sharer) and the two sides using it
    index,          \* sharer.index: the number of valid bytes in dataBuffer
    dataBuffer,     \* sharer.dataBuffer: Capacity bytes
    signal,         \* sharer.stdinBlockBuffer[0]
    lock,           \* sharer.lockBuffer: "free", or the side holding it
    cpc,            \* where the engine is in Stdio.fd_read
    readIovs,       \* the buf_len of each iovec of the read in progress
    nread,          \* nread of the last read that returned (-1: none yet)
    ppc,            \* where the controller is in its write
    writing,        \* the bytes of the write in progress
    wrote,          \* all bytes written by the controller so far (history)
    got             \* all bytes returned by reads so far (history)

VARIABLES
    \* ---- LspClient, its LspPlugin subscribers and the event loop they run on
    client,         \* the fields of the LspClient object
    plugin,         \* the LspPlugin objects and the text of their editors
    sent,           \* the messages handed to sendMessage, in order
    calls,          \* the calls of request(), in order, with their promises
    init,           \* the promise returned by LspClient.initialize()
    microtasks,     \* the promise reactions waiting to run, in order
    fan,            \* the latest handleMessage: what it matched and delivered
    handled         \* the responses handleMessage was called with (history)

VARIABLES
    \* ---- one editor: its document and what handleDiagnostics displays in it
    doc,            \* view.state.doc: the length of each line of the text
    shown,          \* the diagnostics last given to setDiagnostics, in order
    duri,           \* params.uri of the latest publishDiagnostics handled
    dparams,        \* params.diagnostics of the latest one for this document
    dtotal,         \* how many diagnostics the notifications held in all
    conv            \* the latest position conversion and its result

VARIABLES
    \* ---- one call of LspPlugin.requestCompletion past its await
    ctext,          \* the text of the line before the cursor (characters)
    citems,         \* the items of the completion response
    cresult         \* what requestCompletion returned

VARIABLES
    \* ---- Stdio(stderr) and the engine writing to it
    stderrBuffer,   \* Stdio.buffer of the stderr descriptor (bytes)
    logged,         \* the data given to console.debug, in call order
    errWritten,     \* all bytes of the iovecs written so far (history)
    errNwritten     \* nwritten of the last fd_write that returned (-1: none yet)

clientVars == <<client, plugin, sent, calls, init, microtasks, fan, handled>>

completionVars == <<ctext, citems, cresult>>

stderrVars == <<stderrBuffer, logged, errWritten, errNwritten>>

editorVars == <<doc, shown, duri, dparams, dtotal, conv>>

stdoutVars == <<outFrames, outStream, outPos, stdoutBuffer, posted, stdoutThrew>>
stdinVars == <<index, dataBuffer, signal, lock, cpc, readIovs, nread, ppc,
               writing, wrote, got>>

vars == <<stdoutVars, stdinVars, clientVars, editorVars, completionVars, stderrVars>>

-----------------------------------------------------------------------------
(* Bounds of the model *)

MaxFrames == 2
MaxSecondIovec == 3
Capacity == 3        \* bytes in sharer.dataBuffer
MaxWritten == 4      \* bytes the controller writes in all
MaxBufLen == 2       \* the largest buf_len of an iovec of a read
MaxReadIovecs == 2   \* iovecs of one read
MaxPlugins == 2      \* editors, each with one LspPlugin
MaxCalls == 2        \* calls of request() in all
MaxInbound == 2      \* messages handled in all
MaxEdits == 1        \* changes of an editor's text in all
MaxLines == 2        \* lines of a document
MaxLineLen == 1      \* characters of a line
MaxDiagnostics == 2  \* entries of params.diagnostics
MaxEntries == 3      \* entries of all params.diagnostics handled together
MaxItems == 3        \* items of a completion response
MaxTyped == 2        \* characters before the cursor

-----------------------------------------------------------------------------
(* Sequences of bytes and of UTF-16 code units *)

Min(a, b) == IF a < b THEN a ELSE b
Max(a, b) == IF a > b THEN a ELSE b

RECURSIVE Concat(_)
Concat(ss) == IF ss = <<>> THEN <<>> ELSE Head(ss) \o Concat(Tail(ss))

\* String.prototype.startsWith
startsWith(s, p) == Len(s) >= Len(p) /\ SubSeq(s, 1, Len(p)) = p

\* String.prototype.indexOf: the first 0-based index where p occurs, or -1
indexOf(s, p) ==
    LET hits == {i \in 0..(Len(s) - Len(p)) : SubSeq(s, i + 1, i + Len(p)) = p}
    IN  IF hits = {} THEN -1 ELSE CHOOSE i \in hits : \A j \in hits : i <= j

\* Array.prototype.indexOf(x): the first 0-based index holding x, or -1
arrayIndexOf(a, x) ==
    LET hits == {i \in 0..(Len(a) - 1) : a[i + 1] = x}
    IN  IF hits = {} THEN -1 ELSE CHOOSE i \in hits : \A j \in hits : i <= j

\* String.prototype.slice(start, end) with start >= 0; a NaN end counts as 0
slice(s, start, end) ==
    LET e == IF end.nan THEN 0
             ELSE IF end.n < 0 THEN Max(Len(s) + end.n, 0) ELSE Min(end.n, Len(s))
        b == Min(start, Len(s))
    IN  IF e <= b THEN <<>> ELSE SubSeq(s, b + 1, e)

\* String.prototype.slice(start) with start >= 0
sliceFrom(s, start) == SubSeq(s, Min(start, Len(s)) + 1, Len(s))

\* Array.prototype.splice(0, deleteCount): what is left of the array
spliceFront(a, deleteCount) ==
    LET dc == IF deleteCount.nan THEN 0 ELSE Min(Max(deleteCount.n, 0), Len(a))
    IN  SubSeq(a, dc + 1, Len(a))


-----------------------------------------------------------------------------
(* JavaScript numbers: an integer or NaN *)

Num(k) == [nan |-> FALSE, n |-> k]
NaN == [nan |-> TRUE, n |-> 0]

\* a + b where b is a number or NaN
Plus(a, b) == IF b.nan THEN NaN ELSE Num(a + b.n)

\* a < b where b is a number or NaN: every comparison with NaN is false
LessThan(a, b) == ~b.nan /\ a < b.n

-----------------------------------------------------------------------------
(* new TextDecoder("utf-8").decode(bytes): the UTF-16 code units of the     *)
(* decoded string.  An ill-formed or truncated sequence decodes to U+FFFD,  *)
(* a leading byte order mark is dropped.                                    *)

codeUnits(cp) ==
    IF cp < 65536 THEN <<cp>>
    ELSE <<55296 + ((cp - 65536) \div 1024), 56320 + ((cp - 65536) % 1024)>>

RECURSIVE utf8From(_, _, _, _, _, _)
utf8From(b, i, cp, need, lo, hi) ==
    IF i > Len(b) THEN (IF need # 0 THEN <<65533>> ELSE <<>>)
    ELSE LET x == b[i] IN
      IF need = 0 THEN
        IF x <= 127 THEN <<x>> \o utf8From(b, i + 1, 0, 0, 128, 191)
        ELSE IF x \in 194..223 THEN utf8From(b, i + 1, x % 32, 1, 128, 191)
        ELSE IF x \in 224..239 THEN
            utf8From(b, i + 1, x % 16, 2,
                     IF x = 224 THEN 160 ELSE 128, IF x = 237 THEN 159 ELSE 191)
        ELSE IF x \in 240..244 THEN
            utf8From(b, i + 1, x % 8, 3,
                     IF x = 240 THEN 144 ELSE 128, IF x = 244 THEN 143 ELSE 191)
        ELSE <<65533>> \o utf8From(b, i + 1, 0, 0, 128, 191)
      ELSE IF x \notin lo..hi THEN <<65533>> \o utf8From(b, i, 0, 0, 128, 191)
      ELSE IF need = 1 THEN
            codeUnits(cp * 64 + (x % 64)) \o utf8From(b, i + 1, 0, 0, 128, 191)
      ELSE utf8From(b, i + 1, cp * 64 + (x % 64), need - 1, 128, 191)

TextDecode(bytes) ==
    LET s == IF \A i \in 1..Len(bytes) : bytes[i] <= 127 THEN bytes
             ELSE utf8From(bytes, 1, 0, 0, 128, 191)
    IN  IF Len(s) > 0 /\ s[1] = 65279 THEN Tail(s) ELSE s

-----------------------------------------------------------------------------
(* parseInt(string) with no radix argument *)

\* the code unit at 1-based index i, or -1 past the end
At(s, i) == IF i \in 1..Len(s) THEN s[i] ELSE -1

StrWhiteSpace ==
    {9, 10, 11, 12, 13, 32, 160, 5760, 8232, 8233, 8239, 8287, 12288, 65279}
        \cup (8192..8202)

RECURSIVE skipIn(_, _, _)
\* the first index >= i of s whose code unit is not in set (Len(s)+1 if none)
skipIn(s, i, set) ==
    IF i <= Len(s) /\ s[i] \in set THEN skipIn(s, i + 1, set) ELSE i

digitValue(c) ==
    IF c \in 48..57 THEN c - 48
    ELSE IF c \in 97..122 THEN c - 87
    ELSE IF c \in 65..90 THEN c - 55
    ELSE 99

RECURSIVE digitsValue(_, _, _, _)
\* the value of the digits s[i..j] in radix r
digitsValue(s, i, j, r) ==
    IF j < i THEN 0 ELSE digitsValue(s, i, j - 1, r) * r + digitValue(s[j])

parseInt(s) ==
    LET i0    == skipIn(s, 1, StrWhiteSpace)
        neg   == At(s, i0) = 45
        i1    == IF At(s, i0) \in {43, 45} THEN i0 + 1 ELSE i0
        hex   == At(s, i1) = 48 /\ At(s, i1 + 1) \in {120, 88}
        r     == IF hex THEN 16 ELSE 10
        i2    == IF hex THEN i1 + 2 ELSE i1
        ok    == {c \in (48..57) \cup (97..122) \cup (65..90) : digitValue(c) < r}
        i3    == skipIn(s, i2, ok)
    IN  IF i3 = i2 THEN NaN
        ELSE Num((IF neg THEN -1 ELSE 1) * digitsValue(s, i2, i3 - 1, r))

-----------------------------------------------------------------------------
(* JSON.parse(text).  The grammar covered: white space, the literals true,  *)
(* false and null, numbers, strings with their escape sequences, arrays    *)
(* and objects.  The parsed value is represented by its JSON text without  *)
(* insignificant white space, its strings written as JSON.stringify writes *)
(* them; numbers and the members of objects stay as the text has them.     *)

JsonWs == {9, 10, 13, 32}
JsonDigits == 48..57
JsonHexDigits == (48..57) \cup (97..102) \cup (65..70)

\* the characters that may follow a backslash, u apart:  " \ / b f n r t
JsonEscapes == {34, 92, 47, 98, 102, 110, 114, 116}

\* the code unit an escape character stands for
jsonEscapeValue(c) ==
    CASE c = 98 -> 8 [] c = 102 -> 12 [] c = 110 -> 10 [] c = 114 -> 13
      [] c = 116 -> 9 [] OTHER -> c

RECURSIVE jsonString(_, _)
\* the index after the string whose opening quote is at i - 1, or 0
jsonString(s, i) ==
    LET c == At(s, i) IN
    IF c = -1 \/ c < 32 THEN 0
    ELSE IF c = 34 THEN i + 1
    ELSE IF c = 92 THEN
        (IF At(s, i + 1) \in JsonEscapes THEN jsonString(s, i + 2)
         ELSE IF /\ At(s, i + 1) = 117
                 /\ \A k \in (i + 2)..(i + 5) : At(s, k) \in JsonHexDigits
              THEN jsonString(s, i + 6)
         ELSE 0)
    ELSE jsonString(s, i + 1)

RECURSIVE jsonStringValue(_, _)
\* the code units of the (well-formed) string whose opening quote is at i - 1
jsonStringValue(s, i) ==
    IF s[i] = 34 THEN <<>>
    ELSE IF s[i] = 92 THEN
        (IF s[i + 1] = 117
         THEN <<digitsValue(s, i + 2, i + 5, 16)>> \o jsonStringValue(s, i + 6)
         ELSE <<jsonEscapeValue(s[i + 1])>> \o jsonStringValue(s, i + 2))
    ELSE <<s[i]>> \o jsonStringValue(s, i + 1)

\* \uXXXX with lower-case digits
UnicodeEscape(c) ==
    LET hex(v) == IF v < 10 THEN 48 + v ELSE 87 + v
    IN  <<92, 117, hex(c \div 4096), hex((c \div 256) % 16), hex((c \div 16) % 16),
          hex(c % 16)>>

RECURSIVE QuoteJSONString(_, _)
\* the code units u from index i on as JSON.stringify writes them in a string
QuoteJSONString(u, i) ==
    IF i > Len(u) THEN <<>>
    ELSE LET c == u[i] IN
         IF c \in 55296..56319 /\ At(u, i + 1) \in 56320..57343
         THEN <<c, u[i + 1]>> \o QuoteJSONString(u, i + 2)
         ELSE (CASE c = 8  -> <<92, 98>>
                 [] c = 9  -> <<92, 116>>
                 [] c = 10 -> <<92, 110>>
                 [] c = 12 -> <<92, 102>>
                 [] c = 13 -> <<92, 114>>
                 [] c = 34 -> <<92, 34>>
                 [] c = 92 -> <<92, 92>>
                 [] c \in 55296..57343 \/ (c < 32 /\ c \notin {8, 9, 10, 12, 13})
                           -> UnicodeEscape(c)
                 [] OTHER  -> <<c>>) \o QuoteJSONString(u, i + 1)

\* the index after the number that starts at i, or 0
jsonNumber(s, i) ==
    LET i1 == IF At(s, i) = 45 THEN i + 1 ELSE i
        i2 == IF At(s, i1) = 48 THEN i1 + 1 ELSE skipIn(s, i1, JsonDigits)
        f1 == skipIn(s, i2 + 1, JsonDigits)
        i3 == IF At(s, i2) = 46 THEN (IF f1 = i2 + 1 THEN 0 ELSE f1) ELSE i2
        e0 == IF At(s, i3 + 1) \in {43, 45} THEN i3 + 2 ELSE i3 + 1
        e1 == skipIn(s, e0, JsonDigits)
    IN  IF i2 = i1 \/ i3 = 0 THEN 0
        ELSE IF At(s, i3) \in {101, 69} THEN (IF e1 = e0 THEN 0 ELSE e1)
        ELSE i3

jsonLiteral(s, i, word) ==
    IF SubSeq(s, i, Min(Len(s), i + Len(word) - 1)) = word THEN i + Len(word) ELSE 0

RECURSIVE jsonValue(_, _), jsonElements(_, _), jsonMembers(_, _)
\* the index after the value that starts at i, or 0 when there is none
jsonValue(s, i) ==
    LET c == At(s, i) IN
    IF c = 123 THEN
        (LET j == skipIn(s, i + 1, JsonWs)
         IN  IF At(s, j) = 125 THEN j + 1 ELSE jsonMembers(s, j))
    ELSE IF c = 91 THEN
        (LET j == skipIn(s, i + 1, JsonWs)
         IN  IF At(s, j) = 93 THEN j + 1 ELSE jsonElements(s, j))
    ELSE IF c = 34 THEN jsonString(s, i + 1)
    ELSE IF c = 45 \/ c \in JsonDigits THEN jsonNumber(s, i)
    ELSE IF c = 116 THEN jsonLiteral(s, i, <<116, 114, 117, 101>>)
    ELSE IF c = 102 THEN jsonLiteral(s, i, <<102, 97, 108, 115, 101>>)
    ELSE IF c = 110 THEN jsonLiteral(s, i, <<110, 117, 108, 108>>)
    ELSE 0

jsonElements(s, i) ==
    LET e == jsonValue(s, i)
        j == skipIn(s, e, JsonWs)
    IN  IF e = 0 THEN 0
        ELSE IF At(s, j) = 93 THEN j + 1
        ELSE IF At(s, j) = 44 THEN jsonElements(s, skipIn(s, j + 1, JsonWs))
        ELSE 0

jsonMembers(s, i) ==
    LET k == IF At(s, i) = 34 THEN jsonString(s, i + 1) ELSE 0
        j == skipIn(s, k, JsonWs)
        v == IF k # 0 /\ At(s, j) = 58
             THEN jsonValue(s, skipIn(s, j + 1, JsonWs)) ELSE 0
        m == skipIn(s, v, JsonWs)
    IN  IF v = 0 THEN 0
        ELSE IF At(s, m) = 125 THEN m + 1
        ELSE IF At(s, m) = 44 THEN jsonMembers(s, skipIn(s, m + 1, JsonWs))
        ELSE 0

RECURSIVE jsonText(_, _)
\* the (well-formed) text s from index i on, without the white space outside
\* strings and with each string as JSON.stringify writes it
jsonText(s, i) ==
    IF i > Len(s) THEN <<>>
    ELSE IF s[i] \in JsonWs THEN jsonText(s, i + 1)
    ELSE IF s[i] = 34
    THEN <<34>> \o QuoteJSONString(jsonStringValue(s, i + 1), 1) \o <<34>>
            \o jsonText(s, jsonString(s, i + 1))
    ELSE <<s[i]>> \o jsonText(s, i + 1)

\* JSON.parse: ok is FALSE where it throws a SyntaxError
JSONparse(s) ==
    LET e == jsonValue(s, skipIn(s, 1, JsonWs))
    IN  IF e # 0 /\ skipIn(s, e, JsonWs) = Len(s) + 1
        THEN [ok |-> TRUE, value |-> jsonText(s, 1)]
        ELSE [ok |-> FALSE, value |-> <<>>]

-----------------------------------------------------------------------------
(* Stdio.fd_write, stdout kind (worker.ts 32-48) *)

\* "Content-Length: "
ContentLengthPrefix ==
    <<67, 111, 110, 116, 101, 110, 116, 45, 76, 101, 110, 103, 116, 104, 58, 32>>

\* "\r\n\r\n"
HeaderEnd == <<13, 10, 13, 10>>

RECURSIVE stdoutDrain(_)
\* The while (true) loop of the stdout branch on st = [buffer, posted, threw,
\* taken]: threw is TRUE when JSON.parse threw, which ends the loop and the call.
stdoutDrain(st) ==
    LET data      == TextDecode(st.buffer)
        len       == parseInt(sliceFrom(data, Len(ContentLengthPrefix)))
        bodyStart == indexOf(data, HeaderEnd) + 4
        bodyEnd   == Plus(bodyStart, len)
        rest      == spliceFront(st.buffer, bodyEnd)
        parsed    == JSONparse(slice(data, bodyStart, bodyEnd))
    IN  IF ~startsWith(data, ContentLengthPrefix) THEN st
        ELSE IF bodyStart = -1 THEN st
        ELSE IF LessThan(Len(st.buffer), bodyEnd) THEN st
        ELSE IF ~parsed.ok THEN [st EXCEPT !.buffer = rest, !.threw = TRUE]
        ELSE stdoutDrain([st EXCEPT !.buffer = rest,
                                    !.posted = Append(st.posted, parsed.value)])

RECURSIVE fdWriteStdout(_, _)
\* fd_write on the stdout descriptor: the loop over the iovecs, each one the
\* bytes view8.slice(iovec.buf, iovec.buf + iovec.buf_len); taken counts the
\* bytes appended to the buffer
fdWriteStdout(st, iovs) ==
    IF iovs = <<>> \/ st.threw THEN st
    ELSE fdWriteStdout(
            stdoutDrain([st EXCEPT !.buffer = st.buffer \o Head(iovs),
                                   !.taken = st.taken + Len(Head(iovs))]),
            Tail(iovs))

-----------------------------------------------------------------------------
(* The engine on the other side of stdout: it writes a stream of frames in  *)
(* calls of one or two iovecs, cut anywhere.                                *)

RECURSIVE decimal(_)
\* the ASCII decimal digits of n >= 0
decimal(n) == IF n < 10 THEN <<48 + n>> ELSE decimal(n \div 10) \o <<48 + (n % 10)>>

\* 'Content-Length: <len>\r\n\r\n<body>' for a body of bytes
Frame(body) == ContentLengthPrefix \o decimal(Len(body)) \o HeaderEnd \o body

\* {}   and   {"id":1,"r":7}  (14 bytes, a two-digit length)
Bodies == { <<123, 125>>,
            <<123, 34, 105, 100, 34, 58, 49, 44, 34, 114, 34, 58, 55, 125>> }

RECURSIVE SeqsUpTo(_, _)
\* the sequences over S of length at most n
SeqsUpTo(S, n) ==
    IF n = 0 THEN {<<>>}
    ELSE LET shorter == SeqsUpTo(S, n - 1)
         IN  shorter \cup {Append(q, x) : q \in {r \in shorter : Len(r) = n - 1}, x \in S}

RECURSIVE FrameStream(_)
FrameStream(bodies) ==
    IF bodies = <<>> THEN <<>> ELSE Frame(Head(bodies)) \o FrameStream(Tail(bodies))

StdoutConstructed ==
    /\ stdoutBuffer = <<>>
    /\ posted = <<>>
    /\ stdoutThrew = FALSE

\* the channel after the handshake of onmessage (worker.ts 98-105)
StdinConstructed ==
    /\ index = 0
    /\ dataBuffer = [i \in 1..Capacity |-> 0]
    /\ signal = 0
    /\ lock = "free"
    /\ cpc = "idle"
    /\ readIovs = <<>>
    /\ nread = -1
    /\ ppc = "idle"
    /\ writing = <<>>
    /\ wrote = <<>>
    /\ got = <<>>

\* an absent (undefined) id, version or text of a message
Undefined == -1

Plugins == 1..MaxPlugins

\* new LspClient(rootUri, workspaceFolders), and no LspPlugin made yet
ClientConstructed ==
    /\ client = [id                |-> 0,
                 outboundRequests  |-> {},
                 autoClose         |-> TRUE,
                 plugins           |-> <<>>,
                 isOpen            |-> FALSE,
                 initializePromise |-> "undefined",
                 capabilities      |-> "undefined"]
    /\ plugin = [p \in Plugins |->
                    [state |-> "none", documentVersion |-> 0, text |-> 0,
                     openText |-> 0, initPc |-> "none", shown |-> 0]]
    /\ sent = <<>>
    /\ calls = <<>>
    /\ init = [state |-> "none", waiters |-> <<>>]
    /\ microtasks = <<>>
    /\ fan = [n |-> 0, method |-> "undefined", matched |-> FALSE, began |-> <<>>,
              delivered |-> <<>>, caught |-> <<>>, escaped |-> FALSE]
    /\ handled = <<>>

\* an editor with an empty document and no diagnostics
EditorIdle ==
    /\ doc = <<0>>
    /\ shown = <<>>
    /\ duri = Undefined
    /\ dparams = <<>>
    /\ dtotal = 0
    /\ conv = [kind |-> "none"]

\* new Stdio(StdioKind.stderr), and nothing written yet
StderrConstructed ==
    /\ stderrBuffer = <<>>
    /\ logged = <<>>
    /\ errWritten = <<>>
    /\ errNwritten = -1

\* no completion has been asked for
CompletionIdle ==
    /\ ctext = <<>>
    /\ citems = <<>>
    /\ cresult = [state |-> "none"]

InitStdout ==
    /\ outFrames \in SeqsUpTo(Bodies, MaxFrames)
    /\ outStream = FrameStream(outFrames)
    /\ outPos = 0
    /\ StdoutConstructed
    /\ StdinConstructed
    /\ ClientConstructed
    /\ EditorIdle
    /\ CompletionIdle
    /\ StderrConstructed

\* fd_write(view8, iovs) with the next bytes of the stream in iovs
EngineWrite(iovs) ==
    LET st == fdWriteStdout([buffer |-> stdoutBuffer, posted |-> posted,
                             threw |-> FALSE, taken |-> 0], iovs)
    IN  /\ ~stdoutThrew
        /\ stdoutBuffer' = st.buffer
        /\ posted' = st.posted
        /\ stdoutThrew' = st.threw
        /\ outPos' = outPos + st.taken
        /\ UNCHANGED <<outFrames, outStream>>
        /\ UNCHANGED <<stdinVars, clientVars, editorVars, completionVars, stderrVars>>

FdWriteOne ==
    \E n \in 1..(Len(outStream) - outPos) :
        EngineWrite(<<SubSeq(outStream, outPos + 1, outPos + n)>>)

\* a call with two iovecs: the first of any length, the second a short one
FdWriteTwo ==
    \E a \in 1..(Len(outStream) - outPos - 1) :
      \E b \in 1..Min(MaxSecondIovec, Len(outStream) - outPos - a) :
        EngineWrite(<<SubSeq(outStream, outPos + 1, outPos + a),
                      SubSeq(outStream, outPos + a + 1, outPos + a + b)>>)

NextStdout == FdWriteOne \/ FdWriteTwo

SpecStdout == InitStdout /\ [][NextStdout]_vars

-----------------------------------------------------------------------------
(* Claims about the stdout frame decoder *)

\* the number of bytes of the first k frames of the stream
FrameEnd(k) == Len(FrameStream(SubSeq(outFrames, 1, k)))

\* how many frames have arrived with their header and their whole body
CompleteFrames ==
    LET done == {k \in 0..Len(outFrames) : FrameEnd(k) <= outPos}
    IN  CHOOSE k \in done : \A j \in done : j <= k

\* C1: after each write of a stream of well-formed frames, cut anywhere, the
\* messages emitted so far are exactly the frames that have arrived completely,
\* in order and once each; of an incomplete frame nothing is emitted, no byte
\* is removed from the buffer, and no error is raised.
C1_FramesEmittedAsTheyComplete ==
    outStream = FrameStream(outFrames) =>
        /\ ~stdoutThrew
        /\ posted = [i \in 1..CompleteFrames |->
                        JSONparse(TextDecode(outFrames[i])).value]
        /\ stdoutBuffer = SubSeq(outStream, FrameEnd(CompleteFrames) + 1, outPos)

-----------------------------------------------------------------------------
(* Stdio.fd_read (worker.ts 63-93), the consumer of the stdin channel *)

\* readIovec without the move of the remaining bytes to the front
readIovec_NoShift(ch, bufLen) ==
    LET read == Min(bufLen, ch.index)
    IN  [index |-> ch.index - read,
         data  |-> ch.data,
         out   |-> ch.out \o SubSeq(ch.data, 1, read),
         nread |-> ch.nread + read]

\* One turn of the loop over the iovecs, on ch = [index, data, out, nread]:
\* read = min(buf_len, index) bytes leave the front of the buffer, the rest
\* of the buffer moves left by read.
readIovec(ch, bufLen) ==
    LET read == Min(bufLen, ch.index)
    IN  [index |-> ch.index - read,
         data  |-> [i \in 1..Len(ch.data) |->
                       IF i + read <= Len(ch.data) THEN ch.data[i + read]
                       ELSE ch.data[i]],
         out   |-> ch.out \o SubSeq(ch.data, 1, read),
         nread |-> ch.nread + read]

RECURSIVE readIovecs(_, _)
readIovecs(ch, iovs) ==
    IF iovs = <<>> THEN ch ELSE readIovecs(readIovec(ch, Head(iovs)), Tail(iovs))

IovecLists == SeqsUpTo(1..MaxBufLen, MaxReadIovecs) \ {<<>>}

\* the engine calls fd_read(view8, iovs)
FdReadCall ==
    /\ cpc = "idle"
    /\ \E iovs \in IovecLists : readIovs' = iovs
    /\ cpc' = "check"
    /\ UNCHANGED <<index, dataBuffer, signal, lock, nread, ppc, writing, wrote, got>>
    /\ UNCHANGED <<stdoutVars, clientVars, editorVars, completionVars, stderrVars>>

\* if (sharer.index === 0), read without the lock
FdReadCheck ==
    /\ cpc = "check"
    /\ cpc' = IF index = 0 THEN "store" ELSE "lock"
    /\ UNCHANGED <<index, dataBuffer, signal, lock, readIovs, nread, ppc, writing,
                   wrote, got>>
    /\ UNCHANGED <<stdoutVars, clientVars, editorVars, completionVars, stderrVars>>

\* Atomics.store(stdinBlockBuffer, 0, 0)
FdReadStore ==
    /\ cpc = "store"
    /\ signal' = 0
    /\ cpc' = "wait"
    /\ UNCHANGED <<index, dataBuffer, lock, readIovs, nread, ppc, writing, wrote, got>>
    /\ UNCHANGED <<stdoutVars, clientVars, editorVars, completionVars, stderrVars>>

\* Atomics.wait(stdinBlockBuffer, 0, 0): parks while the slot holds 0
FdReadWait ==
    /\ cpc = "wait"
    /\ cpc' = IF signal = 0 THEN "parked" ELSE "lock"
    /\ UNCHANGED <<index, dataBuffer, signal, lock, readIovs, nread, ppc, writing,
                   wrote, got>>
    /\ UNCHANGED <<stdoutVars, clientVars, editorVars, completionVars, stderrVars>>

\* sharer.lock()
FdReadLock ==
    /\ cpc = "lock"
    /\ lock = "free"
    /\ lock' = "consumer"
    /\ cpc' = "drain"
    /\ UNCHANGED <<index, dataBuffer, signal, readIovs, nread, ppc, writing, wrote, got>>
    /\ UNCHANGED <<stdoutVars, clientVars, editorVars, completionVars, stderrVars>>

\* the loop over the iovecs, sharer.unlock() and the return
FdReadDrain ==
    LET ch == readIovecs([index |-> index, data |-> dataBuffer, out |-> <<>>,
                          nread |-> 0], readIovs)
    IN  /\ cpc = "drain"
        /\ index' = ch.index
        /\ dataBuffer' = ch.data
        /\ got' = got \o ch.out
        /\ nread' = ch.nread
        /\ lock' = "free"
        /\ cpc' = "idle"
        /\ readIovs' = <<>>
        /\ UNCHANGED <<signal, ppc, writing, wrote>>
        /\ UNCHANGED <<stdoutVars, clientVars, editorVars, completionVars, stderrVars>>

-----------------------------------------------------------------------------
(* The controller's write into the channel: under the lock it copies the    *)
(* bytes after the current content, sets the length, stores 1 in the signal *)
(* slot and notifies the waiter.                                            *)

\* the controller takes the lock for a write of n bytes that fit
WriteLock ==
    /\ ppc = "idle"
    /\ lock = "free"
    /\ \E n \in 1..Min(Capacity - index, MaxWritten - Len(wrote)) :
          writing' = [i \in 1..n |-> Len(wrote) + i]
    /\ lock' = "producer"
    /\ ppc' = "copy"
    /\ UNCHANGED <<index, dataBuffer, signal, cpc, readIovs, nread, wrote, got>>
    /\ UNCHANGED <<stdoutVars, clientVars, editorVars, completionVars, stderrVars>>

WriteCopy ==
    /\ ppc = "copy"
    /\ dataBuffer' = [i \in 1..Capacity |->
                        IF i \in (index + 1)..(index + Len(writing))
                        THEN writing[i - index] ELSE dataBuffer[i]]
    /\ index' = index + Len(writing)
    /\ wrote' = wrote \o writing
    /\ ppc' = "signal"
    /\ UNCHANGED <<signal, lock, cpc, readIovs, nread, writing, got>>
    /\ UNCHANGED <<stdoutVars, clientVars, editorVars, completionVars, stderrVars>>

\* Atomics.store(stdinBlockBuffer, 0, 1)
WriteSignal ==
    /\ ppc = "signal"
    /\ signal' = 1
    /\ ppc' = "notify"
    /\ UNCHANGED <<index, dataBuffer, lock, cpc, readIovs, nread, writing, wrote, got>>
    /\ UNCHANGED <<stdoutVars, clientVars, editorVars, completionVars, stderrVars>>

\* Atomics.notify(stdinBlockBuffer, 0): a parked reader resumes
WriteNotify ==
    /\ ppc = "notify"
    /\ cpc' = IF cpc = "parked" THEN "lock" ELSE cpc
    /\ ppc' = "unlock"
    /\ UNCHANGED <<index, dataBuffer, signal, lock, readIovs, nread, writing, wrote, got>>
    /\ UNCHANGED <<stdoutVars, clientVars, editorVars, completionVars, stderrVars>>

WriteUnlock ==
    /\ ppc = "unlock"
    /\ lock' = "free"
    /\ ppc' = "idle"
    /\ writing' = <<>>
    /\ UNCHANGED <<index, dataBuffer, signal, cpc, readIovs, nread, wrote, got>>
    /\ UNCHANGED <<stdoutVars, clientVars, editorVars, completionVars, stderrVars>>

\* the engine has nothing to write: the stdout descriptor stays as constructed
StdoutIdle ==
    /\ outFrames = <<>>
    /\ outStream = <<>>
    /\ outPos = 0
    /\ StdoutConstructed

InitStdin ==
    /\ StdoutIdle
    /\ StdinConstructed
    /\ ClientConstructed
    /\ EditorIdle
    /\ CompletionIdle
    /\ StderrConstructed

ReaderStep ==
    FdReadCheck \/ FdReadStore \/ FdReadWait \/ FdReadLock \/ FdReadDrain

WriterStep == WriteCopy \/ WriteSignal \/ WriteNotify \/ WriteUnlock

NextStdin == FdReadCall \/ ReaderStep \/ WriteLock \/ WriterStep

SpecStdin == InitStdin /\ [][NextStdin]_vars

\* The engine's thread and the controller's event loop both keep running: a
\* read that has been called and a write that has begun take their next step
\* whenever they can.
SpecStdinFair == SpecStdin /\ WF_vars(ReaderStep) /\ WF_vars(WriterStep)

-----------------------------------------------------------------------------
(* Claims about the stdin channel *)

IsPrefix(p, s) == Len(p) <= Len(s) /\ SubSeq(s, 1, Len(p)) = p

\* C3: with one producer and one consumer the bytes returned by the reads are
\* a prefix of the bytes written, none lost, duplicated or reordered, and the
\* length counter equals bytes written minus bytes read; the valid part of the
\* buffer holds exactly the bytes not read yet.
C3_ReadsArePrefixOfWrites ==
    /\ IsPrefix(got, wrote)
    /\ index = Len(wrote) - Len(got)
    /\ SubSeq(dataBuffer, 1, index) = SubSeq(wrote, Len(got) + 1, Len(wrote))

\* a read through two iovecs has returned bytes while more stayed buffered
C3_Witness ==
    /\ Len(got) >= 3
    /\ nread = 2
    /\ index > 0
    /\ cpc = "idle"

\* C4: once a write of at least one byte is complete, a read in progress
\* returns without a further write.
C4_ReadReturnsOnceBytesWritten ==
    (cpc # "idle" /\ index > 0 /\ ppc = "idle") ~> (cpc = "idle")

-----------------------------------------------------------------------------
(* LspClient and LspPlugin (worker.ts 181-668).  Their methods are          *)
(* operators on a record w of the client-side variables; an action applies  *)
(* the methods one handler calls and stores the result.                     *)

World == [client |-> client, plugin |-> plugin, sent |-> sent, calls |-> calls,
          init |-> init, microtasks |-> microtasks]

Become(w) ==
    /\ client' = w.client
    /\ plugin' = w.plugin
    /\ sent' = w.sent
    /\ calls' = w.calls
    /\ init' = w.init
    /\ microtasks' = w.microtasks

Range(q) == {q[i] : i \in 1..Len(q)}

\* a JsonRpcMessage going out: uri, version and text are those of its params
Message(id, method, uri, version, text) ==
    [id |-> id, method |-> method, uri |-> uri, version |-> version, text |-> text]

\* sendMessage(data), abstract in LspClient: the transport takes the message
sendMessage(w, msg) == [w EXCEPT !.sent = Append(@, msg)]

\* request() that does not advance this.id
request_ReusesId(w, method, caller, p) ==
    LET id == w.client.id
        n  == Len(w.calls) + 1
        w1 == [w EXCEPT
                !.calls = Append(@, [id |-> id, method |-> method, caller |-> caller,
                                     plug |-> p, promise |-> "pending",
                                     value |-> [k |-> Undefined, flag |-> FALSE],
                                     future |-> "pending"]),
                !.client.outboundRequests =
                    {e \in @ : e[1] # id} \cup {<<id, n>>}]
    IN  sendMessage(w1, Message(id, method, p, Undefined, Undefined))

\* request(method, params) up to its await: id = this.id++, a new promise is
\* stored under id, the message is sent.  caller is the async function that
\* awaits the result, p the plugin it works for (0: none).
request(w, method, caller, p) ==
    LET id == w.client.id
        n  == Len(w.calls) + 1
        w1 == [w EXCEPT
                !.client.id = id + 1,
                !.calls = Append(@, [id |-> id, method |-> method, caller |-> caller,
                                     plug |-> p, promise |-> "pending",
                                     value |-> [k |-> Undefined, flag |-> FALSE],
                                     future |-> "pending"]),
                !.client.outboundRequests =
                    {e \in @ : e[1] # id} \cup {<<id, n>>}]
    IN  sendMessage(w1, Message(id, method, p, Undefined, Undefined))

\* textDocumentHover(params) up to the await of its caller; the caller "hover"
\* is requestHoverTooltip, "host" a direct call
textDocumentHover(w, caller, p) == request(w, "textDocument/hover", caller, p)

\* notify(method, params): the message is sent without an id
notify(w, method, uri, version, text) ==
    sendMessage(w, Message(Undefined, method, uri, version, text))

textDocumentDidOpen(w, uri, version, text) ==
    notify(w, "textDocument/didOpen", uri, version, text)

textDocumentDidChange(w, uri, version, text) ==
    notify(w, "textDocument/didChange", uri, version, text)

\* LspClient.initialize() up to its await; the host may keep the promise it
\* returns in initializePromise
clientInitialize(w, keep) ==
    [request(w, "initialize", "initialize", 0) EXCEPT
        !.init.state = "pending",
        !.client.initializePromise = IF keep THEN "promise" ELSE @]

\* close() up to its first await
close(w) == request(w, "shutdown", "close", 0)

attachPlugin(w, p) == [w EXCEPT !.client.plugins = Append(@, p)]

detachPlugin(w, p) ==
    LET i  == arrayIndexOf(w.client.plugins, p)
        w1 == [w EXCEPT !.client.plugins =
                   SubSeq(@, 1, i) \o SubSeq(@, i + 2, Len(@))]
    IN  IF i = -1 THEN w
        ELSE IF w1.client.autoClose THEN close(w1) ELSE w1

-----------------------------------------------------------------------------
(* LspPlugin *)

\* the documentUri facet of the editor of plugin p
Uri(p) == p

\* the capabilities of a remote that completes and hovers (the other remote of
\* the model has none: "{}")
Providers == "{completionProvider, hoverProvider}"

\* textDocumentDidOpen at the end of LspPlugin.initialize
pluginDidOpen(w, p) ==
    [textDocumentDidOpen(w, Uri(p), w.plugin[p].documentVersion, w.plugin[p].openText)
        EXCEPT !.plugin[p].initPc = "sent"]

\* LspPlugin.initialize({documentText}) up to its await, or to its end when
\* the client has no initializePromise
pluginInitialize(w, p) ==
    IF w.client.initializePromise # "undefined" THEN
        IF w.init.state = "pending"
        THEN [w EXCEPT !.init.waiters = Append(@, p),
                       !.plugin[p].initPc = "awaiting"]
        ELSE [w EXCEPT !.microtasks = Append(@, [kind |-> "pluginInit", n |-> p]),
                       !.plugin[p].initPc = "awaiting"]
    ELSE pluginDidOpen(w, p)

\* new LspPlugin(view, allowHtmlContent)
pluginConstructor(w, p) ==
    pluginInitialize(
        attachPlugin(
            [w EXCEPT !.plugin[p] = [state |-> "live", documentVersion |-> 0,
                                     text |-> @.text, openText |-> @.text,
                                     initPc |-> "none", shown |-> 0]],
            p),
        p)

\* sendChange({documentText}): version: this.documentVersion++
sendChange(w, p, text) ==
    IF ~w.client.isOpen THEN w
    ELSE LET v == w.plugin[p].documentVersion
         IN  [textDocumentDidChange(w, Uri(p), v, text)
                EXCEPT !.plugin[p].documentVersion = v + 1]

\* the editor's text changes and the view calls update({docChanged: true})
editorChange(w, p) ==
    sendChange([w EXCEPT !.plugin[p].text = @ + 1], p, w.plugin[p].text + 1)

\* destroy()
pluginDestroy(w, p) == detachPlugin([w EXCEPT !.plugin[p].state = "destroyed"], p)

\* requestFormat(view) up to its await
requestFormat(w, p) == request(w, "textDocument/formatting", "format", p)

\* requestHoverTooltip(view, {line, character}) up to its await; what follows
\* the await reads the document and the result and changes nothing
requestHoverTooltip(w, p) ==
    IF ~w.client.isOpen \/ w.client.capabilities # Providers THEN w
    ELSE textDocumentHover(w, "hover", p)

\* requestCompletion(...) up to its await, past the isOpen / completionProvider guard
requestCompletion(w, p) ==
    request(sendChange(w, p, w.plugin[p].text), "textDocument/completion",
            "completion", p)

\* handleDiagnostics(params) throws a TypeError when params.diagnostics is missing
handleDiagnosticsThrows(p, msg) == msg.uri = Uri(p) /\ ~msg.hasDiagnostics

\* handleDiagnostics(params): the diagnostics of the message are shown
handleDiagnostics(w, p, msg) ==
    IF msg.uri # Uri(p) THEN w ELSE [w EXCEPT !.plugin[p].shown = msg.value.k]

\* LspPlugin.handleMessage without its try / catch
pluginHandleMessage_NoCatch(w, p, msg) ==
    IF msg.method # "textDocument/publishDiagnostics"
    THEN [w |-> w, threw |-> FALSE, caught |-> FALSE]
    ELSE IF handleDiagnosticsThrows(p, msg)
    THEN [w |-> w, threw |-> TRUE, caught |-> FALSE]
    ELSE [w |-> handleDiagnostics(w, p, msg), threw |-> FALSE, caught |-> FALSE]

\* LspPlugin.handleMessage(message): threw says an exception left the method,
\* caught that its catch clause logged one
pluginHandleMessage(w, p, msg) ==
    IF msg.method # "textDocument/publishDiagnostics"
    THEN [w |-> w, threw |-> FALSE, caught |-> FALSE]
    ELSE IF handleDiagnosticsThrows(p, msg)
    THEN [w |-> w, threw |-> FALSE, caught |-> TRUE]
    ELSE [w |-> handleDiagnostics(w, p, msg), threw |-> FALSE, caught |-> FALSE]

-----------------------------------------------------------------------------
(* LspClient.handleMessage (worker.ts 343-356) and the promise reactions *)

\* outboundRequests.get(id) that returns the oldest entry
lookupRequest_Oldest(out, id) ==
    IF out = {} THEN 0
    ELSE (CHOOSE e \in out : \A f \in out : e[1] <= f[1])[2]

\* outboundRequests.get(id): the call stored under id, 0 for undefined
lookupRequest(out, id) ==
    IF \E e \in out : e[1] = id THEN (CHOOSE e \in out : e[1] = id)[2] ELSE 0

\* req.resolve(message.result) / req.reject(message.error) on the promise of
\* call n; settling wakes the await of request()
settle(w, n, msg) ==
    IF w.calls[n].promise # "pending" THEN w
    ELSE [w EXCEPT !.calls[n].promise = IF msg.isError THEN "rejected" ELSE "resolved",
                   !.calls[n].value = msg.value,
                   !.microtasks = Append(@, [kind |-> "request", n |-> n])]

\* the first statement of handleMessage: a message with an id and no method
\* settles the request stored under its id
handleResponse(w, msg) ==
    IF msg.id # Undefined /\ msg.method = "undefined"
    THEN LET n == lookupRequest(w.client.outboundRequests, msg.id)
         IN  IF n # 0 THEN settle(w, n, msg) ELSE w
    ELSE w

RECURSIVE fanOutFrom(_, _, _, _)
\* for (const plugin of this.plugins) plugin.handleMessage(message), from the
\* i-th plugin on, on f = [w, delivered, caught, escaped].  The loop reads the
\* array as it is at each turn.  During the handler of turn reentry.at the
\* editor of plugin reentry.who comes up (its constructor attaches it).
fanOutFrom(f, i, msg, reentry) ==
    IF f.escaped \/ i > Len(f.w.client.plugins) THEN f
    ELSE LET p  == f.w.client.plugins[i]
             r  == pluginHandleMessage(f.w, p, msg)
             w2 == IF reentry.at = i THEN pluginConstructor(r.w, reentry.who)
                   ELSE r.w
         IN  fanOutFrom([w         |-> w2,
                         delivered |-> Append(f.delivered, p),
                         caught    |-> IF r.caught THEN Append(f.caught, p)
                                       ELSE f.caught,
                         escaped   |-> r.threw],
                        i + 1, msg, reentry)

\* handleMessage(message)
handleMessage(w, msg, reentry) ==
    fanOutFrom([w |-> handleResponse(w, msg), delivered |-> <<>>, caught |-> <<>>,
                escaped |-> FALSE], 1, msg, reentry)

\* request() after its await: outboundRequests.delete(id) and return, or
\* the rejection thrown by the await
requestContinue(w, n) ==
    IF w.calls[n].promise = "resolved"
    THEN [w EXCEPT !.client.outboundRequests = {e \in @ : e[1] # w.calls[n].id},
                   !.calls[n].future = "resolved",
                   !.microtasks = Append(@, [kind |-> "caller", n |-> n])]
    ELSE [w EXCEPT !.calls[n].future = "rejected",
                   !.microtasks = Append(@, [kind |-> "caller", n |-> n])]

\* the promise of LspClient.initialize() settles: the plugins awaiting
\* initializePromise resume in the order they began to wait
initSettled(w, state) ==
    [w EXCEPT !.init = [state |-> state, waiters |-> <<>>],
              !.microtasks = @ \o [i \in 1..Len(w.init.waiters) |->
                                     [kind |-> "pluginInit", n |-> w.init.waiters[i]]]]

\* initialize() that sets isOpen whatever the response was
initializeContinue_OpensAnyway(w, n) ==
    initSettled([w EXCEPT !.client.isOpen = TRUE],
                IF w.calls[n].future = "resolved" THEN "resolved" ELSE "rejected")

\* LspClient.initialize() after its await
initializeContinue(w, n) ==
    IF w.calls[n].future = "resolved"
    THEN LET w1 == [w EXCEPT !.client.capabilities =
                        IF w.calls[n].value.flag THEN Providers ELSE "{}"]
             w2 == notify(w1, "initialized", 0, Undefined, Undefined)
         IN  initSettled([w2 EXCEPT !.client.isOpen = TRUE], "resolved")
    ELSE initSettled(w, "rejected")

\* close() after its first await
closeContinue(w, n) ==
    IF w.calls[n].future = "resolved"
    THEN notify(w, "exit", 0, Undefined, Undefined)
    ELSE w

\* requestFormat() after its await: a result with edits is dispatched to the view
formatContinue(w, n) ==
    IF w.calls[n].future = "resolved" /\ w.calls[n].value.flag
    THEN editorChange(w, w.calls[n].plug)
    ELSE w

\* the async function that awaited request() resumes
callerContinue(w, n) ==
    CASE w.calls[n].caller = "initialize" -> initializeContinue(w, n)
      [] w.calls[n].caller = "close"      -> closeContinue(w, n)
      [] w.calls[n].caller = "format"     -> formatContinue(w, n)
      [] OTHER                            -> w

\* LspPlugin.initialize() after its await of client.initializePromise
pluginInitContinue(w, p) ==
    IF w.init.state = "resolved" THEN pluginDidOpen(w, p)
    ELSE [w EXCEPT !.plugin[p].initPc = "failed"]

runMicrotask(w, t) ==
    CASE t.kind = "request"    -> requestContinue(w, t.n)
      [] t.kind = "caller"     -> callerContinue(w, t.n)
      [] t.kind = "pluginInit" -> pluginInitContinue(w, t.n)

-----------------------------------------------------------------------------
(* The event loop of the editor side.  A task (an editor event, a host call, *)
(* an incoming message) starts when no promise reaction is waiting.          *)

RECURSIVE TotalEdits(_)
\* how often the texts of editors 1..n have changed
TotalEdits(n) == IF n = 0 THEN 0 ELSE plugin[n].text + TotalEdits(n - 1)

Made == {p \in Plugins : plugin[p].state # "none"}

\* the editor of plugin p comes up: ViewPlugin.define constructs the LspPlugin
PluginCreate ==
    /\ microtasks = <<>>
    /\ \E p \in Plugins :
        /\ plugin[p].state = "none"
        /\ \A q \in 1..(p - 1) : plugin[q].state # "none"
        /\ Become(pluginConstructor(World, p))
    /\ UNCHANGED <<fan, handled, stdoutVars, stdinVars, editorVars, completionVars, stderrVars>>

\* the host calls client.initialize(), keeping the promise or not
ClientInitialize ==
    /\ microtasks = <<>>
    /\ init.state = "none"
    /\ Len(calls) < MaxCalls
    /\ \E keep \in BOOLEAN : Become(clientInitialize(World, keep))
    /\ UNCHANGED <<fan, handled, stdoutVars, stdinVars, editorVars, completionVars, stderrVars>>

\* the user edits: update({docChanged: true})
EditorEdit ==
    /\ microtasks = <<>>
    /\ TotalEdits(MaxPlugins) < MaxEdits
    /\ \E p \in Plugins :
        /\ plugin[p].state = "live"
        /\ Become(editorChange(World, p))
    /\ UNCHANGED <<fan, handled, stdoutVars, stdinVars, editorVars, completionVars, stderrVars>>

\* the completion source of createPlugin calls plugin.requestCompletion
RequestCompletion ==
    /\ microtasks = <<>>
    /\ Len(calls) < MaxCalls
    /\ client.isOpen
    /\ client.capabilities = Providers
    /\ \E p \in Plugins :
        /\ plugin[p].state = "live"
        /\ Become(requestCompletion(World, p))
    /\ UNCHANGED <<fan, handled, stdoutVars, stdinVars, editorVars, completionVars, stderrVars>>

\* plugin.requestHoverTooltip(view, position) on a client that is open and
\* hovers (on any other it returns null at once)
RequestHoverTooltip ==
    /\ microtasks = <<>>
    /\ Len(calls) < MaxCalls
    /\ client.isOpen
    /\ client.capabilities = Providers
    /\ \E p \in Plugins :
        /\ plugin[p].state = "live"
        /\ Become(requestHoverTooltip(World, p))
    /\ UNCHANGED <<fan, handled, stdoutVars, stdinVars, editorVars, completionVars, stderrVars>>

\* the host calls client.textDocumentHover(params) itself, for some document
TextDocumentHover ==
    /\ microtasks = <<>>
    /\ Len(calls) < MaxCalls
    /\ \E p \in Plugins : Become(textDocumentHover(World, "host", p))
    /\ UNCHANGED <<fan, handled, stdoutVars, stdinVars, editorVars, completionVars, stderrVars>>

\* Mod-s: plugin.requestFormat(view)
RequestFormat ==
    /\ microtasks = <<>>
    /\ Len(calls) < MaxCalls
    /\ \E p \in Plugins :
        /\ plugin[p].state = "live"
        /\ Become(requestFormat(World, p))
    /\ UNCHANGED <<fan, handled, stdoutVars, stdinVars, editorVars, completionVars, stderrVars>>

\* the editor of plugin p goes away: destroy()
PluginDestroy ==
    /\ microtasks = <<>>
    /\ Len(calls) < MaxCalls
    /\ \E p \in Plugins :
        /\ plugin[p].state = "live"
        /\ Become(pluginDestroy(World, p))
    /\ UNCHANGED <<fan, handled, stdoutVars, stdinVars, editorVars, completionVars, stderrVars>>

\* the responses the remote may send: to an id in use or to the next one, not
\* issued yet, with a result or an error.  The payload k names the request
\* the remote answers.  The flag of a result says: to initialize, that the
\* capabilities hold a completionProvider and a hoverProvider; to formatting,
\* that there are edits to apply.
Responses ==
    {[id |-> i, method |-> "undefined", uri |-> 0, hasDiagnostics |-> FALSE,
      isError |-> e, value |-> [k |-> i, flag |-> f]] :
        i \in 0..client.id, e \in BOOLEAN, f \in BOOLEAN}

FlagMeant(msg) ==
    msg.value.flag =>
        /\ ~msg.isError
        /\ \E n \in 1..Len(calls) :
            /\ calls[n].id = msg.id
            /\ \/ calls[n].method = "initialize"
               \/ /\ calls[n].method = "textDocument/formatting"
                  /\ plugin[calls[n].plug].state = "live"
                  /\ TotalEdits(MaxPlugins) < MaxEdits

\* the publishDiagnostics notifications the remote may send, with or without
\* the diagnostics member
Notifications ==
    {[id |-> Undefined, method |-> "textDocument/publishDiagnostics", uri |-> u,
      hasDiagnostics |-> d, isError |-> FALSE,
      value |-> [k |-> 1, flag |-> FALSE]] :
        u \in Plugins, d \in BOOLEAN}

\* no editor comes up during the fan-out, or one does during some turn of it
Reentries ==
    {[at |-> 0, who |-> 0]} \cup
    {[at |-> i, who |-> p] : i \in 1..Len(client.plugins),
                             p \in {q \in Plugins : /\ plugin[q].state = "none"
                                                    /\ \A r \in 1..(q - 1) :
                                                         plugin[r].state # "none"}}

\* the transport delivers a message: client.handleMessage(msg)
HandleMessage ==
    /\ microtasks = <<>>
    /\ fan.n < MaxInbound
    /\ \E msg \in Responses \cup Notifications : \E reentry \in Reentries :
        /\ FlagMeant(msg)
        /\ LET f == handleMessage(World, msg, reentry)
           IN  /\ Become(f.w)
               /\ fan' = [n         |-> fan.n + 1,
                          method    |-> msg.method,
                          matched   |-> f.w.calls # calls,
                          began     |-> client.plugins,
                          delivered |-> f.delivered,
                          caught    |-> f.caught,
                          escaped   |-> f.escaped]
               /\ handled' = IF msg.id # Undefined /\ msg.method = "undefined"
                             THEN Append(handled, [id |-> msg.id,
                                                   isError |-> msg.isError,
                                                   ncalls |-> Len(calls)])
                             ELSE handled
    /\ UNCHANGED <<stdoutVars, stdinVars, editorVars, completionVars, stderrVars>>

\* the next promise reaction runs
RunMicrotask ==
    /\ microtasks # <<>>
    /\ Become(runMicrotask([World EXCEPT !.microtasks = Tail(@)], Head(microtasks)))
    /\ UNCHANGED <<fan, handled, stdoutVars, stdinVars, editorVars, completionVars, stderrVars>>

InitClient ==
    /\ StdoutIdle
    /\ StdinConstructed
    /\ ClientConstructed
    /\ EditorIdle
    /\ CompletionIdle
    /\ StderrConstructed

NextClient ==
    \/ PluginCreate
    \/ ClientInitialize
    \/ EditorEdit
    \/ RequestCompletion
    \/ RequestHoverTooltip
    \/ TextDocumentHover
    \/ RequestFormat
    \/ PluginDestroy
    \/ HandleMessage
    \/ RunMicrotask

SpecClient == InitClient /\ [][NextClient]_vars

-----------------------------------------------------------------------------
(* Requests and their responses *)

\* the responses handled with the id of call n after call n was issued
AnswersOf(n) ==
    {k \in 1..Len(handled) : handled[k].id = calls[n].id /\ handled[k].ncalls >= n}

\* the first of them, 0 when there is none
Answer(n) ==
    IF AnswersOf(n) = {} THEN 0
    ELSE CHOOSE k \in AnswersOf(n) : \A j \in AnswersOf(n) : k <= j

\* C2: whatever the order in which responses are handled, the promise of a
\* request is pending as long as no response with its id has been handled
\* since it was issued, and from then on it is settled as the first such
\* response said (resolved for a result, rejected for an error) with the
\* payload of the request's own id, later responses changing nothing; the
\* future request() returns follows the promise once the reactions have run.
\* A response whose id was not issued settles nothing.
C2_ResponsesSettleTheirOwnRequest ==
    \A n \in 1..Len(calls) :
        LET a == Answer(n)
        IN  /\ a = 0 => /\ calls[n].promise = "pending"
                        /\ calls[n].future = "pending"
            /\ a # 0 => /\ calls[n].promise =
                              IF handled[a].isError THEN "rejected" ELSE "resolved"
                        /\ calls[n].value.k = calls[n].id
            /\ calls[n].future \in {"pending", calls[n].promise}
            /\ microtasks = <<>> => calls[n].future = calls[n].promise

\* two requests outstanding together, answered in the reverse order, the
\* first answered with an error, and both futures settled
C2_Witness ==
    /\ Len(calls) = 2
    /\ Len(handled) = 2
    /\ handled[1].ncalls = 2
    /\ handled[1].id = calls[2].id
    /\ handled[2].id = calls[1].id
    /\ handled[1].isError
    /\ calls[2].future = "rejected"
    /\ calls[1].future = "resolved"

-----------------------------------------------------------------------------
(* Document versions *)

\* the didOpen and didChange notifications sent for document u, in order
DocMessages(u) ==
    SelectSeq(sent, LAMBDA m : /\ m.uri = u
                               /\ m.method \in {"textDocument/didOpen",
                                                "textDocument/didChange"})

\* C5: the didOpen notification of a document carries version 0 and the k-th
\* didChange notification sent for it carries version k.
C5_KthChangeCarriesVersionK ==
    \A u \in Plugins :
        LET d == DocMessages(u)
        IN  \A i \in 1..Len(d) :
                IF d[i].method = "textDocument/didOpen"
                THEN d[i].version = 0
                ELSE d[i].version =
                        Cardinality({j \in 1..i : d[j].method = "textDocument/didChange"})

-----------------------------------------------------------------------------
(* The session's end *)

\* C6: once close() has sent shutdown and then exit, request() sends no
\* message: no message with an id follows an exit notification.
C6_NoRequestAfterClose ==
    \A i \in 1..Len(sent) :
        sent[i].method = "exit" =>
            \A j \in (i + 1)..Len(sent) : sent[j].id = Undefined

-----------------------------------------------------------------------------
(* The pending map *)

\* C7: when no promise reaction is waiting, outboundRequests holds exactly
\* the ids of the requests whose response has not been handled.
C7_PendingMapHoldsTheUnanswered ==
    microtasks = <<>> =>
        {e[1] : e \in client.outboundRequests} =
            {calls[n].id : n \in {m \in 1..Len(calls) : calls[m].promise = "pending"}}

\* the messages sent with an id, in order
Requested == SelectSeq(sent, LAMBDA m : m.id # Undefined)

\* C8: the ids request() assigns grow strictly, the id counter has advanced
\* once per request() and is beyond every id assigned, the messages sent with
\* an id are those of the calls of request() in order, every other message
\* sent is a notification, and outboundRequests has one entry per id, each
\* made by the request() of that id, with the entry of every request that is
\* pending.
C8_RequestsTakeIdsNotificationsDoNot ==
    /\ \A m, n \in 1..Len(calls) : m < n => calls[m].id < calls[n].id
    /\ \A n \in 1..Len(calls) : calls[n].id < client.id
    /\ client.id = Len(calls)
    /\ Len(Requested) = Len(calls)
    /\ \A n \in 1..Len(calls) : /\ Requested[n].id = calls[n].id
                                /\ Requested[n].method = calls[n].method
    /\ \A e \in client.outboundRequests : /\ e[2] \in 1..Len(calls)
                                          /\ calls[e[2]].id = e[1]
    /\ \A n \in 1..Len(calls) :
            calls[n].promise = "pending" => <<calls[n].id, n>> \in client.outboundRequests

\* a request, then a notification, then a request have been sent, and both
\* requests are pending
C8_Witness ==
    /\ \E i, j, k \in 1..Len(sent) :
        /\ i < j /\ j < k
        /\ sent[i].id # Undefined
        /\ sent[j].id = Undefined
        /\ sent[k].id # Undefined
    /\ Cardinality(client.outboundRequests) = 2
    /\ \A n \in 1..Len(calls) : calls[n].promise = "pending"

-----------------------------------------------------------------------------
(* The fan-out *)

C10_FanOutIgnoresLateAttach ==
    Range(fan.delivered) \subseteq Range(fan.began)

-----------------------------------------------------------------------------
(* Detaching and the shutdown sequence *)

\* how many shutdown requests a sequence of sent messages holds
Shutdowns(s) == Cardinality({i \in 1..Len(s) : s[i].method = "shutdown"})

\* C11: a shutdown request is sent only by the step that detaches the last
\* attached plugin, with autoClose set: after a step that sends one no plugin
\* is attached.
C11_ShutdownOnlyOnLastDetach ==
    [][Shutdowns(sent') > Shutdowns(sent) =>
            /\ client.autoClose
            /\ client.plugins # <<>>
            /\ client'.plugins = <<>>]_vars

-----------------------------------------------------------------------------
(* The initialize exchange *)

\* the calls of request() made by LspClient.initialize()
InitializeCalls == {n \in 1..Len(calls) : calls[n].method = "initialize"}

\* the "initialized" notification has been sent
InitializedSent == \E i \in 1..Len(sent) : sent[i].method = "initialized"

\* C12: isOpen is true only once a result for the initialize request has been
\* handled, and then the capabilities are recorded and "initialized" has been
\* sent; "initialized" is sent only after that result; the promise
\* initialize() returns is settled only after the response, resolved for a
\* result and rejected for an error; after an error isOpen is false and no
\* "initialized" is sent.
C12_OpenOnlyAfterInitializeResult ==
    /\ client.isOpen =>
        /\ InitializedSent
        /\ client.capabilities # "undefined"
        /\ init.state = "resolved"
    /\ InitializedSent =>
        \E n \in InitializeCalls : Answer(n) # 0 /\ ~handled[Answer(n)].isError
    /\ init.state = "resolved" =>
        \E n \in InitializeCalls : Answer(n) # 0 /\ ~handled[Answer(n)].isError
    /\ init.state = "rejected" =>
        \E n \in InitializeCalls : Answer(n) # 0 /\ handled[Answer(n)].isError
    /\ \A n \in InitializeCalls :
        (Answer(n) # 0 /\ handled[Answer(n)].isError) =>
            ~client.isOpen /\ ~InitializedSent
    /\ \A n \in InitializeCalls :
        (Answer(n) # 0 /\ ~handled[Answer(n)].isError /\ microtasks = <<>>) =>
            client.isOpen

\* the initialize request got its result: the client is open with the
\* capabilities of the result, and "initialized" has been sent
C12_Witness ==
    /\ client.isOpen
    /\ client.capabilities = Providers
    /\ InitializedSent
    /\ init.state = "resolved"

\* an error was the response to initialize and the reactions have run
C12_WitnessError ==
    /\ init.state = "rejected"
    /\ microtasks = <<>>
    /\ ~client.isOpen

-----------------------------------------------------------------------------
(* Opening a document *)

\* C13: a didOpen notification is sent only after the client has become
\* open, that is after the "initialized" notification that precedes
\* isOpen = true.
C13_DidOpenOnlyWhenOpen ==
    \A i \in 1..Len(sent) :
        sent[i].method = "textDocument/didOpen" =>
            \E j \in 1..(i - 1) : sent[j].method = "initialized"

-----------------------------------------------------------------------------
(* The document of an editor (Text of @codemirror/state) and the position   *)
(* conversions (worker.ts 677-690).  A document is the sequence of the      *)
(* lengths of its lines; consecutive lines are one line break apart.        *)

RECURSIVE SumTo(_, _)
\* d[1] + ... + d[n]
SumTo(d, n) == IF n = 0 THEN 0 ELSE d[n] + SumTo(d, n - 1)

\* doc.lines
docLines(d) == Len(d)

\* doc.length
docLength(d) == SumTo(d, Len(d)) + Len(d) - 1

\* doc.line(n).from, for 1 <= n <= doc.lines
lineFrom(d, n) == SumTo(d, n - 1) + (n - 1)

\* doc.lineAt(offset).number, for 0 <= offset <= doc.length
lineNumberAt(d, offset) ==
    CHOOSE n \in 1..Len(d) :
        /\ lineFrom(d, n) <= offset
        /\ \A m \in 1..Len(d) : lineFrom(d, m) <= offset => m <= n

\* posToOffset without its test of the offset against doc.length
posToOffset_NoLengthTest(d, pos) ==
    IF pos.line >= docLines(d) THEN Undefined
    ELSE lineFrom(d, pos.line + 1) + pos.character

\* posToOffset(doc, pos): Undefined for the function's bare return
posToOffset(d, pos) ==
    IF pos.line >= docLines(d) THEN Undefined
    ELSE LET offset == lineFrom(d, pos.line + 1) + pos.character
         IN  IF offset > docLength(d) THEN Undefined ELSE offset

\* offsetToPos(doc, offset)
offsetToPos(d, offset) ==
    LET n == lineNumberAt(d, offset)
    IN  [line |-> n - 1, character |-> offset - lineFrom(d, n)]

\* the documents of the model
Docs == UNION {[1..n -> 0..MaxLineLen] : n \in 1..MaxLines}

\* positions, in and out of the documents
Positions == [line : 0..MaxLines, character : 0..MaxLineLen]

-----------------------------------------------------------------------------
(* LspPlugin.handleDiagnostics (worker.ts 640-667) *)

\* the documentUri of the editor, and the uri of some other document
DocumentUri == 1
OtherUri == 2

RECURSIVE insertByFrom(_, _)
\* Array.prototype.sort with the comparator of lines 656-664 is stable: an
\* entry goes behind the entries already placed whose from is not greater
insertByFrom(q, e) ==
    IF q = <<>> THEN <<e>>
    ELSE IF ~(e.from < Head(q).from) THEN <<Head(q)>> \o insertByFrom(Tail(q), e)
    ELSE <<e>> \o q

RECURSIVE sortByFrom(_)
sortByFrom(q) ==
    IF q = <<>> THEN <<>>
    ELSE insertByFrom(sortByFrom(SubSeq(q, 1, Len(q) - 1)), q[Len(q)])

\* the map of lines 644-654
mapDiagnostics(d, diagnostics) ==
    [i \in 1..Len(diagnostics) |->
        [from    |-> posToOffset(d, diagnostics[i].start),
         to      |-> posToOffset(d, diagnostics[i].end),
         message |-> diagnostics[i].message]]

\* the chain of lines 643-664 that keeps every entry
diagnosticsShown_NoFilter(d, diagnostics) ==
    sortByFrom(mapDiagnostics(d, diagnostics))

\* the chain of lines 643-664: map, filter, sort
diagnosticsShown(d, diagnostics) ==
    sortByFrom(SelectSeq(mapDiagnostics(d, diagnostics),
                         LAMBDA e : e.from # Undefined /\ e.to # Undefined))

\* handleDiagnostics(params) on the displayed diagnostics cur
handleDiagnosticsOn(d, cur, uri, diagnostics) ==
    IF uri # DocumentUri THEN cur ELSE diagnosticsShown(d, diagnostics)

\* params.diagnostics: the message of an entry is its place in the list
DiagnosticLists ==
    UNION {[1..n -> [start : Positions, end : Positions]] : n \in 0..MaxDiagnostics}

Numbered(l) ==
    [i \in 1..Len(l) |-> [start |-> l[i].start, end |-> l[i].end, message |-> i]]

\* a publishDiagnostics notification reaches the plugin of the editor
HandleDiagnostics ==
    /\ \E uri \in {DocumentUri, OtherUri} : \E l \in DiagnosticLists :
        /\ dtotal + Len(l) <= MaxEntries
        /\ dtotal' = dtotal + Len(l)
        /\ shown' = handleDiagnosticsOn(doc, shown, uri, Numbered(l))
        /\ duri' = uri
        /\ dparams' = IF uri = DocumentUri THEN Numbered(l) ELSE dparams
    /\ UNCHANGED <<doc, conv, stdoutVars, stdinVars, clientVars, completionVars, stderrVars>>

InitEditor ==
    /\ StdoutIdle
    /\ StdinConstructed
    /\ ClientConstructed
    /\ doc \in Docs
    /\ shown = <<>>
    /\ duri = Undefined
    /\ dparams = <<>>
    /\ dtotal = 0
    /\ conv = [kind |-> "none"]
    /\ CompletionIdle
    /\ StderrConstructed

NextEditor == HandleDiagnostics

SpecEditor == InitEditor /\ [][NextEditor]_vars

\* a position maps into the document
Mappable(d, pos) ==
    /\ pos.line < Len(d)
    /\ lineFrom(d, pos.line + 1) + pos.character <= docLength(d)

\* the entries of params.diagnostics whose two ends map into the document
Kept(d, diagnostics) ==
    {i \in 1..Len(diagnostics) : /\ Mappable(d, diagnostics[i].start)
                                 /\ Mappable(d, diagnostics[i].end)}

\* C14: a publishDiagnostics for another uri leaves the displayed diagnostics
\* as they were; one for the document replaces them by the entries whose
\* start and end both map into the document, each once with the offsets of
\* its two ends, in the order of their start offsets, entries with the same
\* start offset in the order of arrival.
C14_DiagnosticsShownAreTheMappableSorted ==
    [][/\ duri' # DocumentUri => shown' = shown
       /\ duri' = DocumentUri =>
            /\ Len(shown') = Cardinality(Kept(doc, dparams'))
            /\ {shown'[k].message : k \in 1..Len(shown')} = Kept(doc, dparams')
            /\ \A k \in 1..Len(shown') :
                LET e == dparams'[shown'[k].message]
                IN  /\ shown'[k].from = lineFrom(doc, e.start.line + 1) + e.start.character
                    /\ shown'[k].to = lineFrom(doc, e.end.line + 1) + e.end.character
                    /\ shown'[k].from \in 0..docLength(doc)
                    /\ shown'[k].to \in 0..docLength(doc)
            /\ \A j, k \in 1..Len(shown') :
                j < k => \/ shown'[j].from < shown'[k].from
                         \/ /\ shown'[j].from = shown'[k].from
                            /\ shown'[j].message < shown'[k].message]_vars

\* two entries arrived, the second starting before the first: the displayed
\* list holds the second entry before the first
C14_Witness ==
    /\ duri = DocumentUri
    /\ Len(dparams) = 2
    /\ Len(shown) = 2
    /\ shown[1].message = 2
    /\ shown[2].message = 1
    /\ shown[1].from < shown[2].from

-----------------------------------------------------------------------------
(* LspPlugin.requestCompletion after its await (worker.ts 564-626).  A      *)
(* string is the sequence of its characters.                                *)

\* the characters of the model: those matching \w, and one that does not
WordChars == {"a", "A", "b"}
Alphabet == WordChars \cup {"."}

\* String.prototype.toLowerCase
toLowerCase(s) == [i \in 1..Len(s) |-> IF s[i] = "A" THEN "a" ELSE s[i]]

\* /^\w+$/.test(s)
isWord(s) == Len(s) > 0 /\ \A i \in 1..Len(s) : s[i] \in WordChars

\* toSet(chars), as the set of characters its character class matches: \w
\* when a character of chars matches \w, and the other characters escaped
toSet(chars) ==
    (IF chars \cap WordChars # {} THEN WordChars ELSE {}) \cup (chars \ WordChars)

\* prefixMatch(options): the classes of the first and of the later characters
\* of the pattern  first rest* $
prefixMatch(options) ==
    [first |-> toSet({options[i].apply[1] :
                        i \in {j \in 1..Len(options) : Len(options[j].apply) > 0}}),
     rest  |-> toSet(UNION {{options[i].apply[k] : k \in 2..Len(options[i].apply)} :
                        i \in 1..Len(options)})]

\* an optional string member that is absent
NoText == <<"undefined">>

\* the null of matchBefore
NoToken == [from |-> Undefined, text |-> <<>>]

\* context.matchBefore(match): the leftmost match that ends at the cursor, in
\* the text of the line before the cursor
matchBefore(str, match) ==
    LET found == {i \in 1..Len(str) : /\ str[i] \in match.first
                                      /\ \A j \in (i + 1)..Len(str) : str[j] \in match.rest}
    IN  IF found = {} THEN NoToken
        ELSE LET i == CHOOSE i \in found : \A j \in found : i <= j
             IN  [from |-> i - 1, text |-> SubSeq(str, i, Len(str))]

\* the map of lines 568-595; n is the place of the item in the response
mapItems(items) ==
    [i \in 1..Len(items) |->
        [n          |-> i,
         label      |-> items[i].label,
         apply      |-> IF items[i].newText # NoText THEN items[i].newText
                        ELSE items[i].label,
         filterText |-> IF items[i].filterText # NoText THEN items[i].filterText
                        ELSE items[i].label]]

\* the comparator of lines 609-619
compareApply(a, b, text) ==
    IF startsWith(a.apply, text) /\ ~startsWith(b.apply, text) THEN -1
    ELSE IF ~startsWith(a.apply, text) /\ startsWith(b.apply, text) THEN 1
    ELSE 0

RECURSIVE insertByApply(_, _, _)
\* Array.prototype.sort is stable: an option goes behind the options already
\* placed that the comparator does not put behind it
insertByApply(q, e, text) ==
    IF q = <<>> THEN <<e>>
    ELSE IF compareApply(e, Head(q), text) < 0 THEN <<e>> \o q
    ELSE <<Head(q)>> \o insertByApply(Tail(q), e, text)

RECURSIVE sortByApply(_, _)
sortByApply(q, text) ==
    IF q = <<>> THEN <<>>
    ELSE insertByApply(sortByApply(SubSeq(q, 1, Len(q) - 1), text), q[Len(q)], text)

\* lines 597-625 without the sort
completionResult_NoSort(str, items) ==
    LET options == mapItems(items)
        token   == matchBefore(str, prefixMatch(options))
    IN  IF token = NoToken THEN [state |-> "returned", from |-> Len(str),
                                 options |-> options]
        ELSE LET word == toLowerCase(token.text)
             IN  [state |-> "returned", from |-> token.from,
                  options |->
                    IF isWord(word)
                    THEN SelectSeq(options,
                                   LAMBDA o : startsWith(toLowerCase(o.filterText), word))
                    ELSE options]

\* lines 597-625: the cursor is at the end of str, at offset Len(str)
completionResult(str, items) ==
    LET options == mapItems(items)
        token   == matchBefore(str, prefixMatch(options))
    IN  IF token = NoToken THEN [state |-> "returned", from |-> Len(str),
                                   options |-> options]
        ELSE LET word == toLowerCase(token.text)
             IN  [state |-> "returned", from |-> token.from,
                  options |->
                    IF isWord(word)
                    THEN sortByApply(
                            SelectSeq(options,
                                      LAMBDA o : startsWith(toLowerCase(o.filterText), word)),
                            token.text)
                    ELSE options]

\* the labels, filter texts and text edits of the items of the model
Labels == {<<"a", "b">>, <<"b">>, <<".", "a">>}
OtherTexts == {NoText, <<"A", "b">>}
Items == [label : Labels, filterText : OtherTexts, newText : OtherTexts]

\* the completion response has arrived: requestCompletion goes on and returns
CompletionReturns ==
    /\ cresult.state = "none"
    /\ cresult' = completionResult(ctext, citems)
    /\ UNCHANGED <<ctext, citems, stdoutVars, stdinVars, clientVars, editorVars,
                   stderrVars>>

InitCompletion ==
    /\ StdoutIdle
    /\ StdinConstructed
    /\ ClientConstructed
    /\ EditorIdle
    /\ ctext \in SeqsUpTo(Alphabet, MaxTyped)
    /\ citems \in SeqsUpTo(Items, MaxItems)
    /\ cresult = [state |-> "none"]
    /\ StderrConstructed

NextCompletion == CompletionReturns

SpecCompletion == InitCompletion /\ [][NextCompletion]_vars

\* the token the pattern of the options matches before the cursor
Token == matchBefore(ctext, prefixMatch(mapItems(citems)))

\* the insertion text and the filter key of the n-th item of the response
InsertText(n) == IF citems[n].newText # NoText THEN citems[n].newText
                 ELSE citems[n].label
FilterKey(n) == IF citems[n].filterText # NoText THEN citems[n].filterText
                ELSE citems[n].label

\* C15: with a token of word characters only, the options returned are the
\* items whose filter key, lowercased, starts with the lowercased token, each
\* once; an option whose insertion text starts with the token as typed comes
\* before every option whose insertion text does not, and two options of the
\* same kind come in the order of the response.
C15_WordTokenFiltersAndRanks ==
    (cresult.state = "returned" /\ Token # NoToken /\ isWord(Token.text)) =>
        LET o == cresult.options
            exact(k) == startsWith(InsertText(o[k].n), Token.text)
        IN  /\ {o[k].n : k \in 1..Len(o)} =
                 {n \in 1..Len(citems) :
                    startsWith(toLowerCase(FilterKey(n)), toLowerCase(Token.text))}
            /\ \A j, k \in 1..Len(o) :
                j < k => /\ o[j].n # o[k].n
                         /\ exact(k) => exact(j)
                         /\ (exact(j) <=> exact(k)) => o[j].n < o[k].n
            /\ \A k \in 1..Len(o) : /\ o[k].apply = InsertText(o[k].n)
                                    /\ o[k].label = citems[o[k].n].label

\* three items and the token "a": the second item was filtered out and the
\* third, whose insertion text starts with "a", was put before the first,
\* whose insertion text "Ab" does not
C15_Witness ==
    /\ cresult.state = "returned"
    /\ Token # NoToken
    /\ Token.text = <<"a">>
    /\ Len(citems) = 3
    /\ Len(cresult.options) = 2
    /\ cresult.options[1].n = 3
    /\ cresult.options[2].n = 1

\* C16: with a token that is not of word characters only, every item of the
\* response is returned, in the order of the response, and from is the
\* position of the cursor.
C16_NonWordTokenKeepsAllAtCursor ==
    (cresult.state = "returned" /\ Token # NoToken /\ ~isWord(Token.text)) =>
        /\ Len(cresult.options) = Len(citems)
        /\ \A k \in 1..Len(citems) : cresult.options[k].n = k
        /\ cresult.from = Len(ctext)

\* C16, its first half: with such a token every item is returned in the order
\* of the response
C16_NonWordTokenKeepsAll ==
    (cresult.state = "returned" /\ Token # NoToken /\ ~isWord(Token.text)) =>
        /\ Len(cresult.options) = Len(citems)
        /\ \A k \in 1..Len(citems) : cresult.options[k].n = k

-----------------------------------------------------------------------------
(* The stdout decoder on streams that do not begin with a well-formed header *)

\* the lengths of a header that are no decimal number: x, 2x and nothing
BadLengths == {<<120>>, <<50, 120>>, <<>>}

\* a frame behind the byte X, and the body {} behind a header with a bad length
MalformedStreams ==
    {<<88>> \o Frame(b) : b \in Bodies} \cup
    {ContentLengthPrefix \o l \o HeaderEnd \o <<123, 125>> : l \in BadLengths}

InitStdoutMalformed ==
    /\ outFrames = <<>>
    /\ outStream \in MalformedStreams
    /\ outPos = 0
    /\ StdoutConstructed
    /\ StdinConstructed
    /\ ClientConstructed
    /\ EditorIdle
    /\ CompletionIdle
    /\ StderrConstructed

SpecStdoutMalformed == InitStdoutMalformed /\ [][NextStdout]_vars

\* C17: of a stream that begins with a malformed header no message is ever
\* emitted, and once the stream has been written in full the decoder has
\* raised the framing error instead of keeping the bytes in its buffer.
C17_MalformedHeaderIsFatal ==
    outStream \in MalformedStreams =>
        /\ posted = <<>>
        /\ outPos = Len(outStream) => stdoutThrew

-----------------------------------------------------------------------------
(* The end of a document session *)

\* C18: once destroy() of a plugin has run, a didClose notification for the
\* plugin's document has been sent.
C18_DestroySendsDidClose ==
    \A p \in Plugins :
        plugin[p].state = "destroyed" =>
            \E i \in 1..Len(sent) : /\ sent[i].method = "textDocument/didClose"
                                    /\ sent[i].uri = Uri(p)

-----------------------------------------------------------------------------
(* posToOffset and offsetToPos (worker.ts 677-690) on the documents *)

\* positions with a line or a character beyond any document of the model
AnyPositions == [line : 0..(MaxLines + 1), character : 0..(MaxLines * (MaxLineLen + 1))]

\* offsetToPos(doc, offset) for an offset of the document, and posToOffset
\* of its result
ConvertOffset ==
    /\ \E o \in 0..docLength(doc) :
        conv' = [kind |-> "offset", offset |-> o, pos |-> offsetToPos(doc, o),
                 back |-> posToOffset(doc, offsetToPos(doc, o))]
    /\ UNCHANGED <<doc, shown, duri, dparams, dtotal>>
    /\ UNCHANGED <<stdoutVars, stdinVars, clientVars, completionVars, stderrVars>>

\* posToOffset(doc, pos)
ConvertPosition ==
    /\ \E pos \in AnyPositions :
        conv' = [kind |-> "pos", offset |-> posToOffset(doc, pos), pos |-> pos,
                 back |-> Undefined]
    /\ UNCHANGED <<doc, shown, duri, dparams, dtotal>>
    /\ UNCHANGED <<stdoutVars, stdinVars, clientVars, completionVars, stderrVars>>

NextPositions == ConvertOffset \/ ConvertPosition

SpecPositions == InitEditor /\ [][NextPositions]_vars

\* C19: an offset of the document converted to a position and back is the
\* same offset; a position with non-negative line and character is unmappable
\* exactly when its line is not a line of the document or the start of its
\* line plus its character is beyond the length of the document, and
\* otherwise its offset lies within the document.
C19_PositionsRoundTripAndStayInBounds ==
    /\ conv.kind = "offset" =>
        /\ conv.back = conv.offset
        /\ conv.pos.line \in 0..(Len(doc) - 1)
        /\ conv.pos.character >= 0
    /\ conv.kind = "pos" =>
        /\ conv.offset = Undefined <=>
              \/ conv.pos.line >= Len(doc)
              \/ SumTo(doc, conv.pos.line) + conv.pos.line + conv.pos.character
                    > docLength(doc)
        /\ conv.offset # Undefined => conv.offset \in 0..docLength(doc)

\* the last offset of a document of two non-empty lines went to the position
\* (1, 1) and back
C19_Witness ==
    /\ conv.kind = "offset"
    /\ Len(doc) = 2
    /\ conv.offset = docLength(doc)
    /\ conv.pos = [line |-> 1, character |-> 1]
    /\ conv.back = conv.offset

\* a position on a line of the document whose character lies beyond the end
\* of the document was found unmappable
C19_WitnessUnmappable ==
    /\ conv.kind = "pos"
    /\ conv.pos.line < Len(doc)
    /\ conv.offset = Undefined

-----------------------------------------------------------------------------
(* The stdout decoder on bodies with multi-byte UTF-8 characters.  Headers  *)
(* arrive whole here: a write ends at the end of a frame or inside a body.  *)

\* {}   "é"   "€"   ["é"]   "\n" (an escape sequence)   as UTF-8 bytes
UnicodeBodies == { <<123, 125>>,
                   <<34, 195, 169, 34>>,
                   <<34, 226, 130, 172, 34>>,
                   <<91, 34, 195, 169, 34, 93>>,
                   <<34, 92, 110, 34>> }

\* the length of the header of frame k of the stream
HeaderLen(k) == Len(ContentLengthPrefix) + Len(decimal(Len(outFrames[k]))) + Len(HeaderEnd)

\* position n of the stream is not inside a header
PastHeaders(n) ==
    \A k \in 1..Len(outFrames) :
        n <= FrameEnd(k - 1) \/ n >= FrameEnd(k - 1) + HeaderLen(k)

\* fd_write with one iovec that ends outside the headers
FdWriteBodies ==
    \E n \in 1..(Len(outStream) - outPos) :
        /\ PastHeaders(outPos + n)
        /\ EngineWrite(<<SubSeq(outStream, outPos + 1, outPos + n)>>)

InitStdoutUnicode ==
    /\ outFrames \in SeqsUpTo(UnicodeBodies, MaxFrames)
    /\ outStream = FrameStream(outFrames)
    /\ outPos = 0
    /\ StdoutConstructed
    /\ StdinConstructed
    /\ ClientConstructed
    /\ EditorIdle
    /\ CompletionIdle
    /\ StderrConstructed

NextStdoutUnicode == FdWriteBodies

SpecStdoutUnicode == InitStdoutUnicode /\ [][NextStdoutUnicode]_vars

\* C20: every frame that has arrived completely has been handed on, in
\* order, as the message of exactly the L bytes of its body, also when the
\* body holds multi-byte characters and the next frame is in the buffer
\* behind it; exactly the bytes of those frames have left the buffer, and no
\* error was raised.
C20_BodyIsTheLBytesAfterTheHeader ==
    /\ ~stdoutThrew
    /\ Len(posted) = CompleteFrames
    /\ \A k \in 1..Len(posted) : posted[k] = JSONparse(TextDecode(outFrames[k])).value
    /\ Len(stdoutBuffer) = outPos - FrameEnd(CompleteFrames)
    /\ stdoutBuffer = SubSeq(outStream, FrameEnd(CompleteFrames) + 1, outPos)

\* the same for bodies of ASCII characters alone
C20_AsciiBodies ==
    (\A k \in 1..Len(outFrames) : \A i \in 1..Len(outFrames[k]) : outFrames[k][i] < 128)
        => C20_BodyIsTheLBytesAfterTheHeader

-----------------------------------------------------------------------------
(* The stdin channel when the controller may also write no bytes at all *)

\* the controller takes the lock for a write of zero bytes
WriteLockEmpty ==
    /\ ppc = "idle"
    /\ lock = "free"
    /\ writing' = <<>>
    /\ lock' = "producer"
    /\ ppc' = "copy"
    /\ UNCHANGED <<index, dataBuffer, signal, cpc, readIovs, nread, wrote, got>>
    /\ UNCHANGED <<stdoutVars, clientVars, editorVars, completionVars, stderrVars>>

NextStdinEmpty == NextStdin \/ WriteLockEmpty

SpecStdinEmpty == InitStdin /\ [][NextStdinEmpty]_vars

\* C21: no read returns with nread = 0 (every read of the model asks for at
\* least one byte).
C21_ReadNeverReturnsZero == nread # 0

-----------------------------------------------------------------------------
(* Stdio.fd_write of the stderr descriptor: the line-buffered log *)

MaxErrWritten == 5   \* bytes written to stderr in all
MaxErrBufLen == 2    \* the largest buf_len of an iovec of a write to stderr

\* the bytes the engine writes to stderr: line feed, 'a', and EF BB BF (the
\* UTF-8 form of U+FEFF; each of the three alone is an ill-formed sequence)
LineFeed == 10
ErrBytes == {LineFeed, 97, 239, 187, 191}

\* Array.prototype.splice(0, deleteCount): the elements it returns
spliceRemoved(a, deleteCount) ==
    SubSeq(a, 1, Min(Max(deleteCount, 0), Len(a)))

\* one turn of the loop of the stderr branch: the first line leaves the buffer,
\* is decoded and logged
stderrEmit(st) ==
    LET count == arrayIndexOf(st.buffer, LineFeed) + 1
        data == TextDecode(spliceRemoved(st.buffer, count))
    IN  [st EXCEPT !.buffer = spliceFront(st.buffer, Num(count)),
                   !.logged = Append(st.logged, data)]

\* the loop taken once only
stderrDrain_Once(st) ==
    IF arrayIndexOf(st.buffer, LineFeed) # -1 THEN stderrEmit(st) ELSE st

RECURSIVE stderrDrain(_)
\* while (this.buffer.indexOf(10) !== -1) { ... }
stderrDrain(st) ==
    IF arrayIndexOf(st.buffer, LineFeed) # -1 THEN stderrDrain(stderrEmit(st)) ELSE st

RECURSIVE fdWriteStderr(_, _)
\* fd_write(view8, iovs) of the stderr descriptor; iovs holds the slice of each
\* iovec
fdWriteStderr(st, iovs) ==
    IF iovs = <<>> THEN st
    ELSE LET pushed == [st EXCEPT !.buffer = st.buffer \o Head(iovs)]
             drained == stderrDrain(pushed)
         IN  fdWriteStderr([drained EXCEPT !.nwritten = drained.nwritten + Len(Head(iovs))],
                           Tail(iovs))

\* the engine calls fd_write on stderr with the slices iovs
EngineWriteStderr(iovs) ==
    LET st == fdWriteStderr([buffer |-> stderrBuffer, logged |-> logged,
                             nwritten |-> 0], iovs)
    IN  /\ stderrBuffer' = st.buffer
        /\ logged' = st.logged
        /\ errNwritten' = st.nwritten
        /\ errWritten' = errWritten \o Concat(iovs)
        /\ UNCHANGED <<stdoutVars, stdinVars, clientVars, editorVars, completionVars>>

\* the slices an iovec may hold when room bytes may still be written
ErrSlices(room) == SeqsUpTo(ErrBytes, Min(MaxErrBufLen, room))

FdWriteStderrOne ==
    \E s \in ErrSlices(MaxErrWritten - Len(errWritten)) :
        EngineWriteStderr(<<s>>)

FdWriteStderrTwo ==
    \E s1 \in ErrSlices(MaxErrWritten - Len(errWritten)) :
        \E s2 \in ErrSlices(MaxErrWritten - Len(errWritten) - Len(s1)) :
            EngineWriteStderr(<<s1, s2>>)

InitStderr ==
    /\ StdoutIdle
    /\ StdinConstructed
    /\ ClientConstructed
    /\ EditorIdle
    /\ CompletionIdle
    /\ StderrConstructed

NextStderr == FdWriteStderrOne \/ FdWriteStderrTwo

SpecStderr == InitStderr /\ [][NextStderr]_vars

\* the bytes written that have left the buffer, and the places of their line
\* feeds
errConsumed == SubSeq(errWritten, 1, Len(errWritten) - Len(stderrBuffer))
errLineEnds == {k \in 1..Len(errConsumed) : errConsumed[k] = LineFeed}

\* the bytes of the i-th complete line written, its line feed included
errLine(i) ==
    LET end == CHOOSE k \in errLineEnds :
                   Cardinality({j \in errLineEnds : j <= k}) = i
        before == {j \in errLineEnds : j < end}
        start == IF before = {} THEN 1
                 ELSE 1 + CHOOSE j \in before : \A h \in before : h <= j
    IN  SubSeq(errConsumed, start, end)

\* every chunk logged ends in the only line feed it holds, and the buffer
\* holds none
errChunksAreLines ==
    /\ \A i \in 1..Len(logged) :
          /\ logged[i] # <<>>
          /\ logged[i][Len(logged[i])] = LineFeed
          /\ \A k \in 1..(Len(logged[i]) - 1) : logged[i][k] # LineFeed
    /\ \A k \in 1..Len(stderrBuffer) : stderrBuffer[k] # LineFeed

\* the buffer is the end of what was written
errBufferIsTail ==
    /\ Len(stderrBuffer) <= Len(errWritten)
    /\ errWritten = errConsumed \o stderrBuffer

\* C22 (as stated): the chunks logged are complete lines, the buffer holds no
\* line feed, and the chunks logged, joined, followed by the buffer are the
\* bytes written so far: the text logged is the text of the bytes that left the
\* buffer.
C22_LoggedTextIsBytesWritten ==
    /\ errChunksAreLines
    /\ errBufferIsTail
    /\ Concat(logged) = TextDecode(errConsumed)

\* C22 (amended): the chunks logged are complete lines, the buffer holds no
\* line feed and is the end of the bytes written, and the i-th chunk logged is
\* the i-th complete line written, decoded on its own.
C22_LoggedLinesDecodedOneByOne ==
    /\ errChunksAreLines
    /\ errBufferIsTail
    /\ Len(logged) = Cardinality(errLineEnds)
    /\ \A i \in 1..Len(logged) : logged[i] = TextDecode(errLine(i))

\* two lines were logged, one of them longer than any iovec (it was put
\* together from several), and a partial line is in the buffer
C22_Witness ==
    /\ Len(logged) >= 2
    /\ \E i \in 1..Len(logged) : Len(logged[i]) > MaxErrBufLen
    /\ stderrBuffer # <<>>

-----------------------------------------------------------------------------
(* The text the remote holds for a document *)

\* the didOpen and didChange notifications sent for the document of plugin p
TextSendings(p) ==
    {i \in 1..Len(sent) :
        /\ sent[i].method \in {"textDocument/didOpen", "textDocument/didChange"}
        /\ sent[i].uri = Uri(p)}

\* the text of the latest of them
LastTextSent(p) ==
    sent[CHOOSE i \in TextSendings(p) : \A j \in TextSendings(p) : j <= i].text

\* the client is Open, plugin p has sent its didOpen and nothing is left to run
SessionSettled(p) ==
    /\ plugin[p].state = "live"
    /\ plugin[p].initPc = "sent"
    /\ client.isOpen
    /\ microtasks = <<>>

\* C23: whenever the client is Open, a session has sent its didOpen and every
\* edit has gone through update(), the text last sent for the document is the
\* editor's text.
C23_RemoteTextIsEditorText ==
    \A p \in Plugins : SessionSettled(p) => LastTextSent(p) = plugin[p].text

=============================================================================
